---- MODULE Spec2Model ----
(***************************************************************************)
(* The two feed screens of the repository, as one state machine.           *)
(*                                                                         *)
(*   variant = "mock"    the screen that pages through MOCK_DATA           *)
(*   variant = "remote"  the screen that GETs BACKEND_URL/top-news         *)
(*                                                                         *)
(* Both are React function components.  A component has two layers of      *)
(* state, and the model keeps both:                                        *)
(*   - data, page, loading, hasMore: the hook state, i.e. the values the   *)
(*     set* calls have produced so far;                                    *)
(*   - view: the values captured by the render that is on screen.  The     *)
(*     fetchData closure handed to FlatList (onEndReached) and to the      *)
(*     mount effect reads loading / hasMore / page from there, and the     *)
(*     rows and the footer on screen were produced from there.             *)
(* A set* call does not change view; the next re-render (Render) does.     *)
(* Everything runs on one JavaScript thread, so each action is one         *)
(* synchronous run: an event handler, a render, or the continuation of an  *)
(* await.                                                                  *)
(***************************************************************************)
EXTENDS Integers, Sequences, FiniteSets, TLC

\* ---- program constants ----
TOTAL_ITEMS == 50
PAGE_SIZE == 5
BACKEND_URL == "http://AINewsBackend.eu.pythonanywhere.com"

\* ---- bounds of the model ----
\* launches, in one run, that find another fetch still outstanding
MaxOverlaps == 2
\* network requests the remote screen may issue in one run
MaxRequests == 3
\* length of the articles array of a response
MaxArticles == 2
\* list positions handed to renderItem when it is checked on its own
MaxIndex == 2

\* JavaScript's undefined (the value of a missing key)
undefined == "<undefined>"

Min(a, b) == IF a < b THEN a ELSE b

\* Array.prototype.slice(start, end), 0-based, end exclusive, clamped
slice(arr, start, end) ==
    SubSeq(arr, Min(start, Len(arr)) + 1, Min(end, Len(arr)))

\* o[k] of a JavaScript object: undefined when the key is missing
Get(o, k) == IF k \in DOMAIN o THEN o[k] ELSE undefined

\* truthiness of a string-or-undefined value
Truthy(v) == v # undefined /\ v # ""

\* All sequences over S of length 0..n
SeqUpTo(S, n) == UNION {[1..k -> S] : k \in 0..n}

RemoveAt(s, i) == SubSeq(s, 1, i - 1) \o SubSeq(s, i + 1, Len(s))

\* ---- mock screen: data source ----
MOCK_DATA ==
    [index \in 1..TOTAL_ITEMS |->
        [id |-> index, title |-> "News " \o ToString(index)]]

simulateFetchOffByOne(p) ==
    LET start == p * PAGE_SIZE
        end == start + PAGE_SIZE
    IN  slice(MOCK_DATA, start, end)

\* what the promise of simulateFetch(page) resolves with
simulateFetch(p) ==
    LET start == (p - 1) * PAGE_SIZE
        end == start + PAGE_SIZE
    IN  slice(MOCK_DATA, start, end)

\* ---- remote screen: what the backend may answer ----
Texts == {"S", ""}
Titles == {"A", "B"}

\* every shape of article: summary / content missing, empty or non-empty
ArticleShapes ==
    { [title |-> t] : t \in Titles }
    \cup { [title |-> t, summary |-> s] : t \in Titles, s \in Texts }
    \cup { [title |-> t, content |-> c] : t \in Titles, c \in {"C", ""} }
    \cup { [title |-> t, summary |-> s, content |-> c] :
             t \in Titles, s \in Texts, c \in {"C", ""} }

\* the articles the modelled backend serves
Feed ==
    { [title |-> "A", summary |-> "S"],
      [title |-> "B", content |-> "C"],
      [title |-> "A", summary |-> "", content |-> "C"] }

\* parsed bodies: { articles: [...] } or an object without that key
JsonBodies ==
    { [articles |-> s] : s \in SeqUpTo(Feed, MaxArticles) }
    \cup { [status |-> "ok"] }

\* ---- rendering ----
\* the text a <Text> element shows for a string-or-undefined child
Shown(v) == IF v = undefined THEN "" ELSE v

renderItemSummaryOnly(it, idx) ==
    [title |-> Shown(Get(it, "title")),
     body |-> Shown(Get(it, "summary"))]

\* the card of the remote screen: title and body text
renderItem(it, idx) ==
    [title |-> Shown(Get(it, "title")),
     body |-> Shown(IF Truthy(Get(it, "summary"))
                    THEN Get(it, "summary")
                    ELSE Get(it, "content"))]

\* the card of the mock screen: only the title comes from the item
renderItemMock(it) == [title |-> it.title, key |-> ToString(it.id)]

\* ListFooterComponent
renderFooter(l) == IF ~l THEN "null" ELSE "spinner"

VARIABLES
    variant,    \* which screen this run is about
    phase,      \* "created" (first render done), "mounted", "unmounted"
    data, page, loading, hasMore,   \* hook state (page: mock only)
    view,       \* what the render on screen captured, and what it shows
    inflight,   \* outstanding fetchData calls, suspended at an await
    requests,   \* history: the requests launched, oldest first
    completed,  \* history: fetchData calls that ran to their finally
    overlaps,   \* history: launches that found a fetch outstanding
    lateSets,   \* history: a set* call ran after the unmount
    lastEvent,  \* the last thing that happened
    item, index, card   \* renderItem checked on its own

vars == <<variant, phase, data, page, loading, hasMore, view, inflight,
          requests, completed, overlaps, lateSets, lastEvent,
          item, index, card>>

hooks == <<data, page, loading, hasMore>>
history == <<requests, completed, overlaps, lateSets>>
single == <<item, index, card>>

NoCard == [title |-> "", body |-> ""]

\* what a render returns: the closure values and the FlatList props
InfiniteScrollPage(d, p, l, h) ==
    [data |-> d, page |-> p, loading |-> l, hasMore |-> h,
     rows |-> IF variant = "mock"
              THEN [i \in DOMAIN d |-> renderItemMock(d[i])]
              ELSE [i \in DOMAIN d |-> renderItem(d[i], i - 1)],
     footer |-> renderFooter(l)]

Init ==
    /\ variant \in {"mock", "remote"}
    /\ phase = "created"
    /\ data = <<>>
    /\ page = 1
    /\ loading = FALSE
    /\ hasMore = TRUE
    /\ view = InfiniteScrollPage(<<>>, 1, FALSE, TRUE)
    /\ inflight = <<>>
    /\ requests = <<>>
    /\ completed = 0
    /\ overlaps = 0
    /\ lateSets = FALSE
    /\ lastEvent = "created"
    /\ item = [title |-> "A"]
    /\ index = 0
    /\ card = NoCard

\* ---- fetchData: the synchronous part, up to the first await ----
\* v is the render whose closure is being called
fetchData(v) ==
    IF v.loading \/ ~v.hasMore
    THEN \* early return
         /\ lastEvent' = "skipped"
         /\ UNCHANGED <<hooks, inflight, history>>
    ELSE \* setLoading(true), then the request is issued and awaited.  The
         \* first two conjuncts only bound the model.
         /\ inflight # <<>> => overlaps < MaxOverlaps
         /\ variant = "remote" => Len(requests) < MaxRequests
         /\ loading' = TRUE
         /\ inflight' = Append(inflight,
                               [page |-> v.page, at |-> "fetch", seen |-> FALSE])
         /\ requests' = Append(requests,
                               IF variant = "mock" THEN v.page
                               ELSE BACKEND_URL \o "/top-news")
         /\ overlaps' = overlaps + (IF inflight # <<>> THEN 1 ELSE 0)
         /\ lastEvent' = "launched"
         /\ UNCHANGED <<data, page, hasMore, completed, lateSets>>

\* useEffect(() => { fetchData() }, []): runs once, with the closure of the
\* first render
Mount ==
    /\ phase = "created"
    /\ phase' = "mounted"
    /\ fetchData(view)
    /\ UNCHANGED <<variant, view, single>>

\* FlatList calls the onEndReached prop of the render on screen
OnEndReached ==
    /\ phase = "mounted"
    /\ fetchData(view)
    /\ UNCHANGED <<variant, phase, view, single>>

\* React re-renders after set* calls: the new closure and the new rows and
\* footer replace the old ones.
Render ==
    /\ phase = "mounted"
    /\ view # InfiniteScrollPage(data, page, loading, hasMore)
    /\ view' = InfiniteScrollPage(data, page, loading, hasMore)
    /\ inflight' = [i \in DOMAIN inflight |-> [inflight[i] EXCEPT !.seen = TRUE]]
    /\ lastEvent' = "rendered"
    /\ UNCHANGED <<variant, phase, hooks, history, single>>

\* The screen is removed.  Neither component has an effect cleanup, an
\* AbortController or a mounted flag: outstanding fetches stay outstanding.
Unmount ==
    /\ phase = "mounted"
    /\ phase' = "unmounted"
    /\ lastEvent' = "unmounted"
    /\ UNCHANGED <<variant, hooks, view, inflight, history, single>>

\* An awaited promise settles only in a later task than the one that called
\* setLoading(true); React's re-render for that call was scheduled first, so
\* on a mounted screen it has happened by then (seen).
Settles(i) ==
    /\ i \in DOMAIN inflight
    /\ inflight[i].seen \/ phase = "unmounted"

FinallyKeepsLoading(i) ==
    /\ inflight' = RemoveAt(inflight, i)
    /\ completed' = completed + 1
    /\ lateSets' = (lateSets \/ phase = "unmounted")
    /\ UNCHANGED <<variant, phase, view, requests, overlaps, single, loading>>

\* the finally block, and the end of the call.  The continuation runs the
\* same statements whether or not the screen is still there: after an
\* unmount the hook variables hold what the set* calls asked for, and
\* lateSets records that they were made.
Finally(i) ==
    /\ loading' = FALSE
    /\ inflight' = RemoveAt(inflight, i)
    /\ completed' = completed + 1
    /\ lateSets' = (lateSets \/ phase = "unmounted")
    /\ UNCHANGED <<variant, phase, view, requests, overlaps, single>>

\* ---- mock screen: the continuation of `await simulateFetch(page)` ----
mockTry(result) ==
    IF Len(result) = 0
    THEN hasMore' = FALSE /\ UNCHANGED <<data, page>>
    ELSE data' = data \o result /\ page' = page + 1 /\ UNCHANGED hasMore

\* the timer fires: the promise resolves (it never rejects)
MockResolved(i) ==
    /\ variant = "mock"
    /\ Settles(i)
    /\ LET result == simulateFetch(inflight[i].page)
       IN  /\ mockTry(result)
           /\ lastEvent' = IF Len(result) = 0 THEN "empty" ELSE "batch"
    /\ Finally(i)

mockCatchStops == hasMore' = FALSE /\ UNCHANGED <<data, page>>

\* catch (error) { console.error(...) }
mockCatch == UNCHANGED <<data, page, hasMore>>

\* `await simulateFetch(page)` rejects.  simulateFetch as written only ever
\* resolves, so this step is no part of Next: it is the fault that SpecFault
\* injects to exercise the catch and finally blocks.  Only requests before
\* the MaxRequests-th may be hit, which keeps the runs finite.
MockRejected(i) ==
    /\ variant = "mock"
    /\ Settles(i)
    /\ Len(requests) < MaxRequests
    /\ mockCatch
    /\ lastEvent' = "failed"
    /\ Finally(i)

\* ---- remote screen: the continuations of the two awaits ----
\* `await fetch(...)` resolves with a response
FetchResolved(i) ==
    /\ variant = "remote"
    /\ Settles(i)
    /\ inflight[i].at = "fetch"
    /\ inflight' = [inflight EXCEPT ![i].at = "json"]
    /\ lastEvent' = "response"
    /\ UNCHANGED <<variant, phase, hooks, view, history, single>>

\* the rest of the try block, once `await response.json()` has resolved
remoteTry(json) ==
    IF "articles" \in DOMAIN json /\ Len(json.articles) > 0
    THEN data' = json.articles /\ hasMore' = FALSE
    ELSE hasMore' = FALSE /\ UNCHANGED data

remoteCatchStops == hasMore' = FALSE /\ UNCHANGED data

\* catch (error) { console.error(...) }
remoteCatch == UNCHANGED <<data, hasMore>>

JsonResolved(i, json) ==
    /\ variant = "remote"
    /\ i \in DOMAIN inflight
    /\ inflight[i].at = "json"
    /\ remoteTry(json)
    /\ lastEvent' = IF "articles" \in DOMAIN json /\ Len(json.articles) > 0
                    THEN "articles" ELSE "empty"
    /\ UNCHANGED page
    /\ Finally(i)

\* `await fetch(...)` rejects: network failure
FetchRejected(i) ==
    /\ variant = "remote"
    /\ Settles(i)
    /\ inflight[i].at = "fetch"
    /\ remoteCatch
    /\ lastEvent' = "failed"
    /\ UNCHANGED page
    /\ Finally(i)

\* `await response.json()` rejects: the body is not JSON
JsonRejected(i) ==
    /\ variant = "remote"
    /\ i \in DOMAIN inflight
    /\ inflight[i].at = "json"
    /\ remoteCatch
    /\ lastEvent' = "failed"
    /\ UNCHANGED page
    /\ Finally(i)

Slots == 1..(MaxOverlaps + 1)

Next ==
    \/ Mount
    \/ OnEndReached
    \/ Render
    \/ Unmount
    \/ \E i \in Slots : MockResolved(i)
    \/ \E i \in Slots : FetchResolved(i)
    \/ \E i \in Slots : FetchRejected(i)
    \/ \E i \in Slots, json \in JsonBodies : JsonResolved(i, json)
    \/ \E i \in Slots : JsonRejected(i)

Spec == Init /\ [][Next]_vars

\* ---- the mock screen alone ----
InitMock == Init /\ variant = "mock"

\* the mock screen with a simulated fetch that may reject
NextFault ==
    \/ Mount
    \/ OnEndReached
    \/ Render
    \/ Unmount
    \/ \E i \in Slots : MockResolved(i)
    \/ \E i \in Slots : MockRejected(i)

SpecFault == InitMock /\ [][NextFault]_vars

\* the mock screen that stays mounted: the mount effect runs, the timers
\* fire, React re-renders and FlatList keeps reporting the end of the list
NextLive ==
    \/ Mount
    \/ OnEndReached
    \/ Render
    \/ \E i \in Slots : MockResolved(i)

SpecLive ==
    /\ InitMock
    /\ [][NextLive]_vars
    /\ WF_vars(Mount)
    /\ WF_vars(OnEndReached)
    /\ WF_vars(Render)
    /\ WF_vars(\E i \in Slots : MockResolved(i))

\* ---- renderItem on its own: one item, every shape ----
InitRender ==
    /\ variant = "remote"
    /\ phase = "created"
    /\ data = <<>>
    /\ page = 1
    /\ loading = FALSE
    /\ hasMore = TRUE
    /\ view = InfiniteScrollPage(<<>>, 1, FALSE, TRUE)
    /\ inflight = <<>>
    /\ requests = <<>>
    /\ completed = 0
    /\ overlaps = 0
    /\ lateSets = FALSE
    /\ lastEvent = "created"
    /\ item \in ArticleShapes
    /\ index \in 0..MaxIndex
    /\ card = NoCard

RenderItem ==
    /\ lastEvent = "created"
    /\ card' = renderItem(item, index)
    /\ lastEvent' = "item rendered"
    /\ UNCHANGED <<variant, phase, hooks, view, inflight, history, item, index>>

NextRender == RenderItem

SpecRender == InitRender /\ [][NextRender]_vars

\* ======================================================================
\* Properties
\* ======================================================================

\* the ids of the items in data, in order (mock screen)
Ids(d) == [i \in DOMAIN d |-> d[i].id]

NoRepeat(s) == \A i, j \in DOMAIN s : i # j => s[i] # s[j]

\* C1 (as claimed): at most one fetch is outstanding at any time, and the
\* mock screen never requests a page number twice and never appends a batch
\* twice.
C1_OneFetchAtATime ==
    /\ Len(inflight) <= 1
    /\ variant = "mock" => NoRepeat(requests) /\ NoRepeat(Ids(data))

\* C2: mock screen, fetches one after another: after the k-th completed
\* fetch (1 <= k <= 10) data is the first 5*k items of MOCK_DATA and hasMore
\* is true; the 11th fetch asks for page 11, gets nothing, leaves the 50 items
\* and sets hasMore to false; there is no 12th.
C2_TenPagesThenEnd ==
    (variant = "mock" /\ overlaps = 0) =>
        /\ completed \in 0..11
        /\ requests = [k \in 1..Len(requests) |-> k]
        /\ Len(requests) \in {completed, completed + 1}
        /\ completed = 0 => data = <<>> /\ hasMore
        /\ \A k \in 1..10 :
             completed = k => /\ data = SubSeq(MOCK_DATA, 1, 5 * k)
                              /\ Len(data) = 5 * k
                              /\ hasMore
        /\ completed = 11 => /\ data = MOCK_DATA
                             /\ Len(data) = 50
                             /\ ~hasMore
                             /\ requests[11] = 11
                             /\ Len(requests) = 11

C2_Witness ==
    /\ variant = "mock"
    /\ overlaps = 0
    /\ completed = 11
    /\ Len(data) = 50
    /\ ~hasMore

\* a step in which a fetchData call ran to its end with the given outcome
Ended(outcome) == completed' = completed + 1 /\ lastEvent' = outcome

C4_OneBatchThenNoRequest ==
    [][variant = "remote" =>
        /\ \A i \in Slots, json \in JsonBodies :
             (JsonResolved(i, json) /\ lastEvent' = "articles") =>
                 data' = json.articles /\ ~hasMore'
        /\ (data # <<>> /\ ~hasMore) => requests' = requests
      ]_vars

\* C5 (as claimed): no set* call runs after the unmount.
C5_NoSetAfterUnmount == ~lateSets

\* C6 (as claimed): once hasMore is false it stays false and no fetch is
\* launched any more.
C6_HasMoreFalseForGood ==
    [][~hasMore => (~hasMore' /\ requests' = requests)]_vars

\* C7 (as claimed): the remote screen issues exactly one request, the one of
\* the mount effect.
C7_ExactlyOneRequest ==
    (variant = "remote" /\ phase # "created") => Len(requests) = 1

\* C8 (as claimed): loading implies an outstanding fetch, and the footer on
\* screen is the spinner exactly when loading is true, so a spinner on screen
\* implies an outstanding fetch.
C8_SpinnerOnlyWhileFetching ==
    phase = "mounted" =>
        /\ loading => inflight # <<>>
        /\ view.footer = "spinner" <=> loading
        /\ view.footer = "spinner" => inflight # <<>>

\* C8 (amended): the loading state is true only while a fetch is
\* outstanding; every render shows the spinner exactly when the loading
\* value it captured is true; so right after a re-render the spinner is on
\* screen only if a fetch is outstanding.
C8_LoadingOnlyWhileFetching ==
    /\ loading => inflight # <<>>
    /\ view.footer = "spinner" <=> view.loading
    /\ (phase = "mounted" /\ lastEvent = "rendered") =>
           /\ view.loading = loading
           /\ view.footer = "spinner" => inflight # <<>>

C8_Witness ==
    /\ phase = "mounted"
    /\ lastEvent = "rendered"
    /\ view.footer = "spinner"
    /\ inflight # <<>>

\* C9 (as claimed): the body text is summary when the item has a summary,
\* else content when it has a content, else blank.
C9_SummaryWhenPresent ==
    lastEvent = "item rendered" =>
        card.body = IF "summary" \in DOMAIN item THEN item.summary
                    ELSE IF "content" \in DOMAIN item THEN item.content
                    ELSE ""

\* C9 (amended): the body text is summary when the item has a non-empty
\* summary, else content when it has a content, else blank.
C9_SummaryWhenNonEmpty ==
    lastEvent = "item rendered" =>
        card.body = IF "summary" \in DOMAIN item /\ item.summary # ""
                    THEN item.summary
                    ELSE IF "content" \in DOMAIN item THEN item.content
                    ELSE ""

C9_Witness ==
    /\ lastEvent = "item rendered"
    /\ "summary" \in DOMAIN item
    /\ item.summary = ""
    /\ "content" \in DOMAIN item
    /\ card.body = "C"

\* C10 (as claimed): mount and every end-of-list trigger launch a fetch if
\* and only if loading is false and hasMore is true at that moment; a
\* rejected trigger changes nothing; only the fetch routine changes the
\* state.
C10_GuardOnCurrentState ==
    [][/\ requests' # requests => (~loading /\ hasMore)
       /\ (lastEvent' = "skipped" /\ lastEvent # "skipped") =>
              /\ loading \/ ~hasMore
              /\ UNCHANGED <<hooks, inflight, requests>>
       /\ lastEvent' \in {"rendered", "unmounted", "response"} =>
              UNCHANGED hooks
      ]_vars

\* C11: mock screen: a simulated fetch that rejects changes neither data nor
\* page nor hasMore, resets loading to false and launches nothing; the next
\* fetch a trigger launches (fetches not overlapping) asks for the current
\* page again, the page of the failed one.
C11_MockFailureOnlyLogged ==
    [][variant = "mock" =>
        /\ Ended("failed") =>
              /\ UNCHANGED <<data, page, hasMore>>
              /\ ~loading'
              /\ requests' = requests
              /\ Len(inflight') = Len(inflight) - 1
        /\ (overlaps' = 0 /\ requests' # requests) =>
              requests' = Append(requests, page)
      ]_vars

\* the page of a failed fetch is requested a second time
C11_Witness ==
    /\ variant = "mock"
    /\ overlaps = 0
    /\ lastEvent = "launched"
    /\ Len(requests) = 2
    /\ requests[1] = requests[2]
    /\ completed = 1
    /\ hasMore
    /\ data = <<>>

\* the FlatList keys of the rows on screen (mock screen)
Keys(v) == [i \in DOMAIN v.rows |-> v.rows[i].key]

\* C12 (as claimed): mock screen, in every reachable state: 1 <= page <= 11,
\* data is the prefix of MOCK_DATA of length PAGE_SIZE * (page - 1), so its
\* ids are 1..n without gap, duplicate or reordering, the keys of the rows
\* are pairwise distinct and data never has more than 50 items.
C12_DataIsPrefix ==
    (variant = "mock" /\ phase # "unmounted") =>
        /\ page \in 1..11
        /\ Len(data) = PAGE_SIZE * (page - 1)
        /\ Len(data) <= 50
        /\ data = SubSeq(MOCK_DATA, 1, Len(data))
        /\ Ids(data) = [i \in 1..Len(data) |-> i]
        /\ NoRepeat(Keys(view))

\* every item of MOCK_DATA is in data, nothing is outstanding, and fetching
\* has stopped
AllLoaded ==
    /\ \A k \in 1..50 : \E i \in DOMAIN data : data[i] = MOCK_DATA[k]
    /\ ~hasMore
    /\ ~loading
    /\ inflight = <<>>
    /\ completed = Len(requests)

\* C13 (as claimed): mock screen, timers firing and triggers recurring:
\* eventually data holds all 50 items, hasMore and loading are false and
\* every launched fetch has completed, and this stays so forever.
C13_EventuallyAllLoaded == <>[]AllLoaded

\* C14 (as claimed): remote screen: as long as the request of the mount
\* effect is outstanding and none has completed, loading stays true, data
\* stays empty, hasMore stays true and no trigger launches another request.
C14_HungRequestBlocks ==
    [][(variant = "remote" /\ inflight # <<>> /\ completed = 0
            /\ completed' = 0) =>
        /\ loading'
        /\ data' = <<>>
        /\ hasMore'
        /\ requests' = requests
        /\ Len(requests') = 1
      ]_vars

\* C15 (as claimed): remote screen: data is written at most once, by
\* replacement; an empty or missing articles array and a throw leave it
\* unchanged; so data is always the initial empty list or the articles array
\* of one response.
C15_DataWrittenOnce ==
    [][variant = "remote" =>
        /\ data' # data => /\ data = <<>>
                           /\ Ended("articles")
                           /\ \E json \in JsonBodies :
                                /\ "articles" \in DOMAIN json
                                /\ data' = json.articles
        /\ Ended("articles") => data = <<>>
        /\ (Ended("empty") \/ Ended("failed")) => data' = data
      ]_vars

====
